---- MODULE Spec2Model ----
(***************************************************************************)
(* QYNTRA: the multi-provider streaming core.                              *)
(*   ApiKeyRotation            (services/apiKeyRotation.ts)                *)
(*   Gemini/Groq/OpenRouter    (services/*Service.ts, streamMessage)       *)
(*   AIProviderFactory         (services/aiProviderFactory.ts)             *)
(*                                                                         *)
(* A string that the program splits on ',' is kept as the sequence of its  *)
(* comma-free pieces, each piece a sequence of one-character strings, so   *)
(* that split / trim / filter are computed and not assumed.  The empty     *)
(* string is the one-piece sequence << <<>> >>.                            *)
(***************************************************************************)
EXTENDS Integers, Sequences, FiniteSets, TLC

VARIABLES
    env,          \* process.env: the configured credential strings
    keyRotation,  \* the module-level ApiKeyRotation instance of each service
    now,          \* Date.now()
    returned,     \* what the latest direct getNextKey() call returned, or NoKey
    currentKey,   \* this.currentKey of each service singleton
    gemini,       \* GeminiService: chat, currentModel, currentSearchEnabled
    calls,        \* the streamMessage generators: one record per call
    fb,           \* the streamMessageWithFallback generator
    delivered,    \* the chunks handed to the consumer of the outermost generator,
                  \* each with the service whose stream produced it (source)
    requests,     \* how many requests have been started
    chatArea      \* ChatArea: messages, isLoading and the locals of handleSend

svcVars == <<currentKey, gemini, calls, fb, delivered, requests, chatArea>>
vars == <<env, keyRotation, now, returned, currentKey, gemini, calls, fb, delivered, requests,
          chatArea>>

-----------------------------------------------------------------------------
(* Bounds of the model *)

MaxKeys == 3            \* largest number of distinct keys in one pool
MaxTicks == 2           \* how many times the clock advances
TickMs == 30000         \* how far one clock step advances Date.now()
StartTime == 1          \* Date.now() when the module is loaded
MaxFailureCount == 3    \* direct markKeyFailed calls stop at this failureCount

-----------------------------------------------------------------------------
(* Program constants *)

COOLDOWN_MS == 60000
MAX_FAILURES == 3

NO_API_KEY_PROVIDED == <<"NO_API_KEY_PROVIDED">>

Undefined == -1         \* an absent optional number (failedAt?: number)
NoKey == <<>>           \* no key: never an element of a pool (empty pieces are dropped)

Services == {"gemini", "groq", "openrouter"}

-----------------------------------------------------------------------------
(* ApiKeyRotation *)

Range(s) == {s[i] : i \in 1..Len(s)}

RECURSIVE trimStart(_)
trimStart(s) ==
    IF s # <<>> /\ Head(s) = " " THEN trimStart(Tail(s)) ELSE s

RECURSIVE trimEnd(_)
trimEnd(s) ==
    IF s # <<>> /\ s[Len(s)] = " " THEN trimEnd(SubSeq(s, 1, Len(s) - 1)) ELSE s

trim(s) == trimEnd(trimStart(s))

RECURSIVE filterNonEmpty(_)
filterNonEmpty(ss) ==
    IF ss = <<>> THEN <<>>
    ELSE IF Len(Head(ss)) > 0 THEN <<Head(ss)>> \o filterNonEmpty(Tail(ss))
    ELSE filterNonEmpty(Tail(ss))

\* new ApiKeyRotation(apiKeys), apiKeys a string
ApiKeyRotationWithoutPlaceholder(apiKeys) ==
    LET keys == filterNonEmpty([i \in 1..Len(apiKeys) |-> trim(apiKeys[i])])
    IN  [ keys |-> keys,
          currentIndex |-> 0,
          keyStatuses |-> [i \in 0..(Len(keys) - 1) |->
                              [index |-> i, failedAt |-> Undefined, failureCount |-> 0]] ]
ApiKeyRotation(apiKeys) ==
    LET parsed == filterNonEmpty([i \in 1..Len(apiKeys) |-> trim(apiKeys[i])])
        keys == IF Len(parsed) = 0 THEN <<NO_API_KEY_PROVIDED>> ELSE parsed
    IN  [ keys |-> keys,
          currentIndex |-> 0,
          keyStatuses |-> [i \in 0..(Len(keys) - 1) |->
                              [index |-> i, failedAt |-> Undefined, failureCount |-> 0]] ]

\* this.keys[i], i counted from 0
keyAt(p, i) == p.keys[i + 1]

\* this.keys.indexOf(key): the first index holding key, or -1
indexOf(p, key) ==
    IF \E i \in 0..(Len(p.keys) - 1) : keyAt(p, i) = key
    THEN CHOOSE i \in 0..(Len(p.keys) - 1) :
            /\ keyAt(p, i) = key
            /\ \A j \in 0..(i - 1) : keyAt(p, j) # key
    ELSE -1

\* if (status.failedAt): undefined and 0 are falsy
isSet(failedAt) == failedAt # Undefined /\ failedAt # 0

\* if (timeSinceFailure < this.COOLDOWN_MS)
inCooldownSeconds(status, t) ==
    isSet(status.failedAt) /\ t - status.failedAt < COOLDOWN_MS \div 1000
inCooldown(status, t) == isSet(status.failedAt) /\ t - status.failedAt < COOLDOWN_MS

\* this.currentIndex = (this.currentIndex + 1) % this.keys.length
advanceStuck(p) == p
advance(p) == [p EXCEPT !.currentIndex = (p.currentIndex + 1) % Len(p.keys)]

resetKeyKeepingCount(p, index) ==
    IF index \in DOMAIN p.keyStatuses
    THEN [p EXCEPT !.keyStatuses[index].failedAt = Undefined]
    ELSE p
resetKey(p, index) ==
    IF index \in DOMAIN p.keyStatuses
    THEN [p EXCEPT !.keyStatuses[index].failedAt = Undefined,
                   !.keyStatuses[index].failureCount = 0]
    ELSE p

\* The while loop of getNextKey; the result is the pool afterwards, the key returned
\* and the final value of the local attempts (the candidates skipped).
RECURSIVE getNextKeyLoop(_, _, _, _)
getNextKeyLoop(p, startIndex, attempts, t) ==
    IF attempts < Len(p.keys)
    THEN LET status == p.keyStatuses[p.currentIndex]
         IN  IF inCooldown(status, t)
             THEN getNextKeyLoop(advance(p), startIndex, attempts + 1, t)
             ELSE LET q == IF isSet(status.failedAt) THEN resetKey(p, p.currentIndex) ELSE p
                  IN  IF q.keyStatuses[q.currentIndex].failureCount >= MAX_FAILURES
                      THEN getNextKeyLoop(advance(q), startIndex, attempts + 1, t)
                      ELSE [pool |-> advance(q), key |-> keyAt(q, q.currentIndex),
                            attempts |-> attempts]
    ELSE [pool |-> p, key |-> keyAt(p, startIndex), attempts |-> attempts]

getNextKeyFromFirstKey(p, t) == getNextKeyLoop(p, 0, 0, t)
getNextKey(p, t) == getNextKeyLoop(p, p.currentIndex, 0, t)

markKeyFailedKeepingCursor(p, key, t) ==
    LET index == indexOf(p, key)
    IN  IF index = -1 THEN p
        ELSE [p EXCEPT !.keyStatuses[index].failureCount = @ + 1,
                       !.keyStatuses[index].failedAt = t]
markKeyFailedAlwaysAdvancing(p, key, t) ==
    LET index == indexOf(p, key)
    IN  IF index = -1 THEN p
        ELSE advance([p EXCEPT !.keyStatuses[index].failureCount = @ + 1,
                               !.keyStatuses[index].failedAt = t])
markKeyFailed(p, key, t) ==
    LET index == indexOf(p, key)
    IN  IF index = -1 THEN p
        ELSE LET q == [p EXCEPT !.keyStatuses[index].failureCount = @ + 1,
                                !.keyStatuses[index].failedAt = t]
             IN  IF q.currentIndex = index THEN advance(q) ELSE q

getKeyCount(p) == Len(p.keys)

getAvailableKeyCountIgnoringCooldown(p, t) ==
    Cardinality({i \in DOMAIN p.keyStatuses : p.keyStatuses[i].failureCount < MAX_FAILURES})
getAvailableKeyCount(p, t) ==
    Cardinality({i \in DOMAIN p.keyStatuses :
        /\ p.keyStatuses[i].failureCount < MAX_FAILURES
        /\ (~isSet(p.keyStatuses[i].failedAt) \/ t - p.keyStatuses[i].failedAt >= COOLDOWN_MS)})

-----------------------------------------------------------------------------
(* Configured credential strings *)

KeyChars == <<"a", "b", "c", "d", "e">>

Key(i) == <<KeyChars[i]>>

EmptyString == << <<>> >>

\* "a", "a,b", "a,b,c", ...
DistinctKeysEnv(n) == [i \in 1..n |-> Key(i)]

EnvValues ==
    {EmptyString}
    \cup {DistinctKeysEnv(n) : n \in 1..MaxKeys}
    \cup { <<Key(1), Key(1)>>,                          \* "a,a"
           << <<" ", "a", " ">>, <<" ">>, <<"b">> >> }  \* " a , ,b"

\* process.env.X || "" : an unset variable reads as the empty string
EnvNames == {"GEMINI_API_KEY", "API_KEY", "GROQ_API_KEY", "OPENROUTER_API_KEY"}

truthy(s) == s # EmptyString

\* const apiKeys = process.env.... of each service module
apiKeys(e, s) ==
    CASE s = "gemini" -> IF truthy(e["GEMINI_API_KEY"]) THEN e["GEMINI_API_KEY"] ELSE e["API_KEY"]
      [] s = "groq" -> e["GROQ_API_KEY"]
      [] s = "openrouter" -> e["OPENROUTER_API_KEY"]


-----------------------------------------------------------------------------
(* Messages, requests and upstream behaviour *)

MAX_RETRIES == 3

MaxHistory == 2         \* longest history of a request
MaxChunks == 2          \* most chunks delivered to the consumer during one request
MaxRequests == 2        \* direct streamMessage calls issued one after the other
MaxFallbackRequests == 1    \* streamMessageWithFallback calls issued one after the other

\* The i-th turn of a conversation: user and model alternate; content is the
\* turn's number, so that every turn is different from every other.
Turn(i) == [role |-> IF i % 2 = 1 THEN "user" ELSE "model", content |-> i]

History(L) == [i \in 1..L |-> Turn(i)]

\* A message that is no entry of any history.
FreshMessage == [role |-> "user", content |-> 0]

GEMINI == "gemini"
GROQ == "groq"
NoProvider == ""        \* config.provider absent

DefaultGeminiModel == "gemini-2.5-flash"
DefaultGroqModel == "llama-3.3-70b-versatile"

Models == {DefaultGeminiModel, DefaultGroqModel}

\* error.message of what an upstream call may reject with, as a sequence of words
UpstreamErrors ==
    { <<"HTTP", "429">>, <<"network", "down">>, <<>> }

UpstreamTexts == {"", "x"}

NoGrounding == ""       \* groundingMetadata absent

\* What one chunk of an upstream stream carries: its text and, for some chunks,
\* grounding metadata.
PlainChunks == {[text |-> text, grounding |-> NoGrounding] : text \in UpstreamTexts}

GroundedChunks == {[text |-> "x", grounding |-> "G1"], [text |-> "", grounding |-> "G2"]}

\* The chunks of the streams read from a service directly: an empty one, and one
\* with text and with metadata next to it.
DirectChunks == {[text |-> "", grounding |-> NoGrounding], [text |-> "x", grounding |-> "G1"]}

NoError == <<>>
NoPayload == <<>>
NoRequest == <<>>

EXHAUSTED_RETRIES == <<"Failed to generate response after maximum retries">>
ALL_PROVIDERS_FAILED == <<"All AI providers failed. Please check your API keys.">>

\* errorMessage.includes(word)
includes(message, word) == word \in Range(message)

\* const errorMessage = error.message || error.toString()
errorMessageOf(message) == IF message # <<>> THEN message ELSE <<"Error">>

isRateLimitErrorAlways(errorMessage) == TRUE
isRateLimitError(errorMessage) ==
    \/ includes(errorMessage, "429")
    \/ includes(errorMessage, "quota")
    \/ includes(errorMessage, "rate limit")
    \/ includes(errorMessage, "RESOURCE_EXHAUSTED")

-----------------------------------------------------------------------------
(* The provider services *)

NoSession == [chat |-> <<>>, currentModel |-> "", currentSearchEnabled |-> FALSE]

\* One streamMessage call.  Beside the generator's own state (pc, retryCount) the
\* record keeps what the call did: the adapter invocations, the payload and key
\* of the latest one, the message of every failed attempt, for every failed
\* attempt the key it was sent with and the key passed to markKeyFailed (NoKey
\* when none was), and the number of getNextKey() calls.
IdleCall ==
    [ pc |-> "idle", svc |-> "", req |-> NoRequest, retryCount |-> 0,
      invocations |-> 0, sent |-> NoPayload, sentKey |-> NoKey,
      failures |-> <<>>, marks |-> <<>>, acquired |-> 0, error |-> NoError ]

\* history.slice(0, -1)
sliceAll(history) == history
sliceDropLast(history) == SubSeq(history, 1, Len(history) - 1)

\* GroqService / OpenRouterService: the messages array after the system message
chatMessages(req) ==
    LET historyWithoutLast == sliceDropLast(req.history)
    IN  [i \in 1..Len(historyWithoutLast) |->
            [ role |-> IF historyWithoutLast[i].role = "model" THEN "assistant" ELSE "user",
              content |-> historyWithoutLast[i].content ]]
        \o <<[role |-> "user", content |-> req.lastMessage.content]>>

\* GeminiService.initChat: the session it creates
initChat(config, history) ==
    LET validHistory == [i \in 1..Len(sliceDropLast(history)) |->
                            [ role |-> sliceDropLast(history)[i].role,
                              content |-> sliceDropLast(history)[i].content ]]
    IN  [ chat |-> <<[model |-> config.model, search |-> config.useSearch,
                      history |-> validHistory]>>,
          currentModel |-> config.model,
          currentSearchEnabled |-> config.useSearch ]

\* chat.sendMessageStream({message}): the SDK sends the session's history followed
\* by the message as a user turn
sendMessageStream(chat, lastMessage) ==
    [ model |-> chat.model,
      turns |-> chat.history \o <<[role |-> "user", content |-> lastMessage.content]>> ]

\* The state the services share, as one record
World == [keyRotation |-> keyRotation, currentKey |-> currentKey, gemini |-> gemini]

\* The try block up to the awaited adapter invocation.  Gemini rebuilds its session
\* first (needsReinit is always true), so "if (!this.chat) throw" never fires.
attemptReusingSession(w, cl) ==
    LET stale == \/ w.gemini.chat = <<>>
                 \/ w.gemini.currentModel # cl.req.config.model
                 \/ w.gemini.currentSearchEnabled # cl.req.config.useSearch
        g == IF cl.svc = GEMINI /\ stale THEN initChat(cl.req.config, cl.req.history)
             ELSE w.gemini
        payload == IF cl.svc = GEMINI
                   THEN sendMessageStream(g.chat[1], cl.req.lastMessage)
                   ELSE [model |-> cl.req.config.model, turns |-> chatMessages(cl.req)]
    IN  [ world |-> [w EXCEPT !.gemini = g],
          call |-> [cl EXCEPT !.pc = "awaitCreate",
                              !.invocations = @ + 1,
                              !.sent = payload,
                              !.sentKey = w.currentKey[cl.svc]] ]
attempt(w, cl) ==
    LET g == IF cl.svc = GEMINI THEN initChat(cl.req.config, cl.req.history) ELSE w.gemini
        payload == IF cl.svc = GEMINI
                   THEN sendMessageStream(g.chat[1], cl.req.lastMessage)
                   ELSE [model |-> cl.req.config.model, turns |-> chatMessages(cl.req)]
    IN  [ world |-> [w EXCEPT !.gemini = g],
          call |-> [cl EXCEPT !.pc = "awaitCreate",
                              !.invocations = @ + 1,
                              !.sent = payload,
                              !.sentKey = w.currentKey[cl.svc]] ]

\* while (retryCount < MAX_RETRIES) { try ... } throw new Error("... maximum retries")
retryLoop(w, cl) ==
    IF cl.retryCount < MAX_RETRIES
    THEN attempt(w, cl)
    ELSE [world |-> w, call |-> [cl EXCEPT !.pc = "threw", !.error = EXHAUSTED_RETRIES]]

\* this.reinitializeWithNewKey()
reinitializeWithNewKey(w, svc, t) ==
    LET r == getNextKey(w.keyRotation[svc], t)
    IN  [w EXCEPT !.keyRotation[svc] = r.pool, !.currentKey[svc] = r.key]

\* The catch block, for an attempt that failed with error.message = message.
catchWithoutBound(w, cl, message, t) ==
    LET errorMessage == errorMessageOf(message)
        failed == [cl EXCEPT !.failures = Append(@, errorMessage)]
    IN  IF isRateLimitError(errorMessage)
        THEN LET marked == [w EXCEPT !.keyRotation[cl.svc] =
                                markKeyFailed(@, w.currentKey[cl.svc], t)]
                 rotated == reinitializeWithNewKey(marked, cl.svc, t)
             IN  attempt(rotated,
                         [failed EXCEPT !.acquired = @ + 1,
                                        !.marks = Append(@, [sent |-> cl.sentKey,
                                                             marked |-> w.currentKey[cl.svc]])])
        ELSE [ world |-> w,
               call |-> [failed EXCEPT !.pc = "threw", !.error = errorMessage,
                                       !.marks = Append(@, [sent |-> cl.sentKey,
                                                            marked |-> NoKey])] ]
catch(w, cl, message, t) ==
    LET errorMessage == errorMessageOf(message)
        failed == [cl EXCEPT !.failures = Append(@, errorMessage)]
    IN  IF isRateLimitError(errorMessage) /\ cl.retryCount < MAX_RETRIES - 1
        THEN LET marked == [w EXCEPT !.keyRotation[cl.svc] =
                                markKeyFailed(@, w.currentKey[cl.svc], t)]
                 rotated == reinitializeWithNewKey(marked, cl.svc, t)
             IN  retryLoop(rotated,
                           [failed EXCEPT !.retryCount = @ + 1,
                                          !.acquired = @ + 1,
                                          !.marks = Append(@, [sent |-> cl.sentKey,
                                                               marked |-> w.currentKey[cl.svc]])])
        ELSE [ world |-> w,
               call |-> [failed EXCEPT !.pc = "threw", !.error = errorMessage,
                                       !.marks = Append(@, [sent |-> cl.sentKey,
                                                            marked |-> NoKey])] ]

\* service.streamMessage(lastMessage, history, config), run to its first await
streamMessage(w, svc, req) ==
    retryLoop(w, [IdleCall EXCEPT !.svc = svc, !.req = req])

\* What a service yields for an upstream chunk: Gemini forwards every chunk, Groq
\* and OpenRouter only those with content.
yields(svc, text) == svc = GEMINI \/ text # ""

\* The object yielded: Gemini copies text and groundingMetadata, Groq and
\* OpenRouter yield { text: content } alone.
outputWithGrounding(svc, chunk) == [text |-> chunk.text, grounding |-> chunk.grounding]
output(svc, chunk) ==
    IF svc = GEMINI
    THEN [text |-> chunk.text, grounding |-> chunk.grounding]
    ELSE [text |-> chunk.text, grounding |-> NoGrounding]

-----------------------------------------------------------------------------
(* AIProviderFactory *)

providers == {GEMINI, GROQ}

isProviderAvailable(e, provider) ==
    CASE provider = GEMINI -> truthy(e["GEMINI_API_KEY"])
      [] provider = GROQ -> truthy(e["GROQ_API_KEY"])
      [] OTHER -> FALSE

getAvailableProviders(e) ==
    SelectSeq(<<GEMINI, GROQ>>, LAMBDA provider : isProviderAvailable(e, provider))

\* One streamMessageWithFallback call.  returnRequested: the consumer has called
\* return() on the generator while its next() was pending, and the request waits
\* in the generator's queue.
IdleFallback ==
    [ pc |-> "idle", req |-> NoRequest, primaryProvider |-> "", availableProviders |-> <<>>,
      position |-> 0, invoked |-> <<>>, completed |-> "", error |-> NoError,
      returnRequested |-> FALSE ]

\* const fallbackConfig = { ...config }; fallbackConfig.model = <the provider's default>
fallbackConfigKeepingModel(config, provider) == config
fallbackConfig(config, provider) ==
    IF provider = GROQ THEN [config EXCEPT !.model = DefaultGroqModel]
    ELSE IF provider = GEMINI THEN [config EXCEPT !.model = DefaultGeminiModel]
    ELSE config

-----------------------------------------------------------------------------
(* ChatArea.handleSend, the regular chat flow.  Kept: the component's own      *)
(* messages state, isLoading, what it hands to onCreateSession and             *)
(* onUpdateSession, and the locals of handleSend.  The /image command and the  *)
(* document context (useDocuments) are inputs held off.  sessionMessages is    *)
(* currentSession.messages as the parent keeps it; sessionChanged says that    *)
(* currentSession's id or updatedAt has changed since the effect that copies   *)
(* the session into messages last ran.                                         *)

ERROR_CONTENT ==
    <<"I encountered an error connecting to the intelligence layer. Please check your API Key and try again.">>

NoSessionId == ""       \* activeSessionId = null

\* A Message; content is the sequence of the text pieces it was built from.
Message(id, role, content) ==
    [ id |-> id, role |-> role, content |-> content, isError |-> FALSE,
      groundingMetadata |-> NoGrounding ]

IdleChatArea ==
    [ pc |-> "idle", isLoading |-> FALSE, messages |-> <<>>,
      activeSessionId |-> NoSessionId, sessionMessages |-> <<>>,
      sessionChanged |-> FALSE,
      modelMessageId |-> <<>>, currentHistory |-> <<>>,
      streamedContent |-> <<>>, finalGrounding |-> NoGrounding ]

\* streamedContent += chunk.text
concatReplacing(content, text) == IF text = "" THEN content ELSE <<text>>
concat(content, text) == IF text = "" THEN content ELSE Append(content, text)

\* handleSend from the user message to the stub of the model message; n numbers
\* the send (ids are Date.now() strings, different from send to send).
beginSend(ca, input, n) ==
    LET userMessage == Message(<<"user", n>>, "user", input)
        optimisticMessages == Append(ca.messages, userMessage)
        currentHistory == IF ca.activeSessionId = NoSessionId
                          THEN <<userMessage>> ELSE optimisticMessages
        modelMessageStub == Message(<<"model", n>>, "model", <<>>)
    IN  [ ca EXCEPT !.pc = "reading",
                    !.isLoading = TRUE,
                    !.messages = Append(optimisticMessages, modelMessageStub),
                    !.activeSessionId = IF ca.activeSessionId = NoSessionId
                                         THEN <<"session", n>> ELSE ca.activeSessionId,
                    !.sessionMessages = currentHistory,
                    !.sessionChanged = TRUE,
                    !.modelMessageId = modelMessageStub.id,
                    !.currentHistory = currentHistory,
                    !.streamedContent = <<>>,
                    !.finalGrounding = NoGrounding ]

\* The body of "for await (const chunk of stream)"
keepFirstGrounding(ca, chunk) ==
    LET streamedContent == concat(ca.streamedContent, chunk.text)
        finalGrounding == IF chunk.grounding # NoGrounding /\ ca.finalGrounding = NoGrounding
                          THEN chunk.grounding ELSE ca.finalGrounding
    IN  [ ca EXCEPT !.streamedContent = streamedContent,
                    !.finalGrounding = finalGrounding,
                    !.messages = [i \in 1..Len(ca.messages) |->
                        IF ca.messages[i].id = ca.modelMessageId
                        THEN [ca.messages[i] EXCEPT !.content = streamedContent,
                                                    !.groundingMetadata = finalGrounding]
                        ELSE ca.messages[i]] ]
readChunk(ca, chunk) ==
    LET streamedContent == concat(ca.streamedContent, chunk.text)
        finalGrounding == IF chunk.grounding # NoGrounding
                          THEN chunk.grounding ELSE ca.finalGrounding
    IN  [ ca EXCEPT !.streamedContent = streamedContent,
                    !.finalGrounding = finalGrounding,
                    !.messages = [i \in 1..Len(ca.messages) |->
                        IF ca.messages[i].id = ca.modelMessageId
                        THEN [ca.messages[i] EXCEPT !.content = streamedContent,
                                                    !.groundingMetadata = finalGrounding]
                        ELSE ca.messages[i]] ]

\* After the loop: the final model message goes to the session.
commit(ca) ==
    LET finalModelMessage ==
            [ Message(ca.modelMessageId, "model", ca.streamedContent)
                EXCEPT !.groundingMetadata = ca.finalGrounding ]
    IN  [ ca EXCEPT !.pc = "idle", !.isLoading = FALSE,
                    !.sessionMessages = Append(ca.currentHistory, finalModelMessage),
                    !.sessionChanged = TRUE ]

\* catch (error): an error message is appended to messages.
fail(ca, n) ==
    [ ca EXCEPT !.pc = "idle", !.isLoading = FALSE,
                !.messages = Append(@, [Message(<<"error", n>>, "model", ERROR_CONTENT)
                                            EXCEPT !.isError = TRUE]) ]

\* useEffect on [currentSession?.id, currentSession?.updatedAt]
syncWithSession(ca) ==
    [ ca EXCEPT !.messages = IF ca.activeSessionId # NoSessionId
                             THEN ca.sessionMessages ELSE <<>>,
                !.sessionChanged = FALSE ]

\* handleSend resumes when the stream it reads has ended (f is the generator).
afterStream(ca, f, n) ==
    IF ca.pc # "reading" THEN ca
    ELSE IF f.pc = "returned" THEN commit(ca)
    ELSE IF f.pc = "threw" THEN fail(ca, n)
    ELSE ca

-----------------------------------------------------------------------------
(* The pool on its own: any sequence of calls of its public methods *)

PoolService == "groq"

pool == keyRotation[PoolService]

InitPool ==
    /\ env \in {[n \in EnvNames |-> IF n = "GROQ_API_KEY" THEN v ELSE EmptyString] : v \in EnvValues}
    /\ keyRotation = [s \in Services |-> ApiKeyRotation(apiKeys(env, s))]
    /\ now = StartTime
    /\ returned = NoKey
    /\ currentKey = [s \in Services |-> NoKey]
    /\ gemini = NoSession
    /\ calls = <<>>
    /\ fb = IdleFallback
    /\ delivered = <<>>
    /\ requests = 0
    /\ chatArea = IdleChatArea

CallGetNextKey ==
    LET r == getNextKey(pool, now)
    IN  /\ keyRotation' = [keyRotation EXCEPT ![PoolService] = r.pool]
        /\ returned' = r.key
        /\ UNCHANGED <<env, now, svcVars>>

CallMarkKeyFailed(key) ==
    /\ indexOf(pool, key) # -1 => pool.keyStatuses[indexOf(pool, key)].failureCount < MaxFailureCount
    /\ keyRotation' = [keyRotation EXCEPT ![PoolService] = markKeyFailed(pool, key, now)]
    /\ returned' = NoKey
    /\ UNCHANGED <<env, now, svcVars>>

CallResetKey(index) ==
    /\ keyRotation' = [keyRotation EXCEPT ![PoolService] = resetKey(pool, index)]
    /\ returned' = NoKey
    /\ UNCHANGED <<env, now, svcVars>>

Tick ==
    /\ now + TickMs <= StartTime + MaxTicks * TickMs
    /\ now' = now + TickMs
    /\ returned' = NoKey
    /\ UNCHANGED <<env, keyRotation, svcVars>>

NextPool ==
    \/ CallGetNextKey
    \/ \E key \in Range(pool.keys) \cup {<<"z">>} : CallMarkKeyFailed(key)
    \/ \E index \in -1..Len(pool.keys) : CallResetKey(index)
    \/ Tick

SpecPool == InitPool /\ [][NextPool]_vars

-----------------------------------------------------------------------------
(* The services at work: requests, and what the upstream APIs answer *)

\* The for loop over availableProviders of streamMessageWithFallback, from
\* position i on: it starts the next provider's stream, or throws when none is left.
RECURSIVE fallbackLoop(_, _, _, _)
fallbackLoop(w, cs, f, i) ==
    IF i > Len(f.availableProviders)
    THEN [ world |-> w, calls |-> cs,
           fb |-> [f EXCEPT !.pc = "threw", !.error = ALL_PROVIDERS_FAILED] ]
    ELSE LET provider == f.availableProviders[i]
         IN  IF provider = f.primaryProvider \/ provider \notin providers
             THEN fallbackLoop(w, cs, f, i + 1)
             ELSE LET r == streamMessage(w, provider,
                               [f.req EXCEPT !.config = fallbackConfig(@, provider)])
                  IN  [ world |-> r.world,
                        calls |-> [cs EXCEPT ![provider] = r.call],
                        fb |-> [f EXCEPT !.pc = "fallback", !.position = i,
                                         !.invoked = Append(@, provider)] ]

\* streamMessageWithFallback(lastMessage, history, config), run to its first await
streamMessageWithFallbackUnchecked(w, cs, req, e) ==
    LET primaryProvider == IF req.config.provider # NoProvider THEN req.config.provider ELSE GEMINI
        availableProviders == getAvailableProviders(e)
        f == [IdleFallback EXCEPT !.req = req, !.primaryProvider = primaryProvider,
                                  !.availableProviders = availableProviders]
        r == streamMessage(w, primaryProvider, req)
    IN  [ world |-> r.world,
          calls |-> [cs EXCEPT ![primaryProvider] = r.call],
          fb |-> [f EXCEPT !.pc = "primary", !.invoked = <<primaryProvider>>] ]
streamMessageWithFallback(w, cs, req, e) ==
    LET primaryProvider == IF req.config.provider # NoProvider THEN req.config.provider ELSE GEMINI
        availableProviders == getAvailableProviders(e)
        f == [IdleFallback EXCEPT !.req = req, !.primaryProvider = primaryProvider,
                                  !.availableProviders = availableProviders]
    IN  IF primaryProvider \in Range(availableProviders) /\ primaryProvider \in providers
        THEN LET r == streamMessage(w, primaryProvider, req)
             IN  [ world |-> r.world,
                   calls |-> [cs EXCEPT ![primaryProvider] = r.call],
                   fb |-> [f EXCEPT !.pc = "primary", !.invoked = <<primaryProvider>>] ]
        ELSE fallbackLoop(w, cs, f, 1)

\* yield { ...chunk, provider: primaryProvider } / yield { ...chunk, provider }
chunkProviderPrimary(f) == f.primaryProvider
chunkProvider(f) ==
    IF f.pc = "primary" THEN f.primaryProvider
    ELSE IF f.pc = "fallback" THEN f.availableProviders[f.position]
    ELSE NoProvider

\* The generator that consumes call c resumes when c returned or threw.
resumeWithoutReturn(w, cs, f, c) ==
    IF f.pc = "primary" /\ cs[c].pc \in {"returned", "threw"}
    THEN fallbackLoop(w, cs, f, 1)
    ELSE IF f.pc = "fallback" /\ cs[c].pc = "returned"
    THEN [world |-> w, calls |-> cs, fb |-> [f EXCEPT !.pc = "returned", !.completed = c]]
    ELSE IF f.pc = "fallback" /\ cs[c].pc = "threw"
    THEN fallbackLoop(w, cs, f, f.position + 1)
    ELSE [world |-> w, calls |-> cs, fb |-> f]
resumeRethrowing(w, cs, f, c) ==
    IF f.pc \in {"primary", "fallback"} /\ cs[c].pc = "returned"
    THEN [world |-> w, calls |-> cs, fb |-> [f EXCEPT !.pc = "returned", !.completed = c]]
    ELSE IF f.pc = "primary" /\ cs[c].pc = "threw"
    THEN fallbackLoop(w, cs, f, 1)
    ELSE IF f.pc = "fallback" /\ cs[c].pc = "threw"
    THEN [world |-> w, calls |-> cs, fb |-> [f EXCEPT !.pc = "threw", !.error = cs[c].error]]
    ELSE [world |-> w, calls |-> cs, fb |-> f]
resume(w, cs, f, c) ==
    IF f.pc \in {"primary", "fallback"} /\ cs[c].pc = "returned"
    THEN [world |-> w, calls |-> cs, fb |-> [f EXCEPT !.pc = "returned", !.completed = c]]
    ELSE IF f.pc = "primary" /\ cs[c].pc = "threw"
    THEN fallbackLoop(w, cs, f, 1)
    ELSE IF f.pc = "fallback" /\ cs[c].pc = "threw"
    THEN fallbackLoop(w, cs, f, f.position + 1)
    ELSE [world |-> w, calls |-> cs, fb |-> f]

Become(r) ==
    /\ keyRotation' = r.world.keyRotation
    /\ currentKey' = r.world.currentKey
    /\ gemini' = r.world.gemini
    /\ calls' = r.calls
    /\ fb' = r.fb

\* Call c has taken a step that left the services as r.world and the call as r.call.
\* The consumer of the outermost generator resumes in the same step.
Settle(c, r) ==
    LET after == resume(r.world, [calls EXCEPT ![c] = r.call], fb, c)
    IN  /\ Become(after)
        /\ chatArea' = afterStream(chatArea, after.fb, requests)

Active(c) == calls[c].pc \in {"awaitCreate", "streaming"}

Quiet == \A c \in DOMAIN calls : ~Active(c)

\* The adapter invocation resolves: the stream is open.
CreateResolves(c) ==
    /\ calls[c].pc = "awaitCreate"
    /\ calls' = [calls EXCEPT ![c].pc = "streaming"]
    /\ UNCHANGED <<env, keyRotation, now, returned, currentKey, gemini, fb, delivered, requests,
                   chatArea>>

\* The adapter invocation rejects.
CreateRejects(c, message) ==
    /\ calls[c].pc = "awaitCreate"
    /\ Settle(c, catch(World, calls[c], message, now))
    /\ UNCHANGED <<env, now, returned, delivered, requests>>

\* The upstream stream delivers a chunk; the generators hand what the service
\* yields for it to the consumer, and handleSend, when it is the consumer, runs
\* its loop body.
ChunkArrives(c, chunk) ==
    /\ calls[c].pc = "streaming"
    /\ Len(delivered) < MaxChunks
    /\ LET yielded == output(calls[c].svc, chunk)
       IN  IF yields(calls[c].svc, chunk.text)
           THEN /\ delivered' = Append(delivered,
                                    [ text |-> yielded.text,
                                      grounding |-> yielded.grounding,
                                      provider |-> chunkProvider(fb),
                                      source |-> calls[c].svc ])
                /\ chatArea' = IF chatArea.pc = "reading"
                               THEN readChunk(chatArea, yielded) ELSE chatArea
           ELSE UNCHANGED <<delivered, chatArea>>
    /\ UNCHANGED <<env, keyRotation, now, returned, currentKey, gemini, calls, fb, requests>>

\* The upstream stream ends: streamMessage returns.
StreamEnds(c) ==
    /\ calls[c].pc = "streaming"
    /\ Settle(c, [world |-> World, call |-> [calls[c] EXCEPT !.pc = "returned"]])
    /\ UNCHANGED <<env, now, returned, delivered, requests>>

\* The upstream stream fails while it is read.
StreamThrows(c, message) ==
    /\ calls[c].pc = "streaming"
    /\ Settle(c, catch(World, calls[c], message, now))
    /\ UNCHANGED <<env, now, returned, delivered, requests>>

\* Module load: each service constructor takes its first key.
InitServices ==
    /\ keyRotation = [s \in Services |-> getNextKey(ApiKeyRotation(apiKeys(env, s)), StartTime).pool]
    /\ currentKey = [s \in Services |-> getNextKey(ApiKeyRotation(apiKeys(env, s)), StartTime).key]
    /\ gemini = NoSession
    /\ now = StartTime
    /\ returned = NoKey
    /\ fb = IdleFallback
    /\ delivered = <<>>
    /\ requests = 0

-----------------------------------------------------------------------------
(* One service called directly, request after request *)

DirectConfig == [provider |-> NoProvider, model |-> DefaultGroqModel, useSearch |-> FALSE]

\* A config that differs from DirectConfig in its (model, search) pair
SearchConfig == [DirectConfig EXCEPT !.useSearch = TRUE, !.model = DefaultGeminiModel]

DirectRequests ==
    { [lastMessage |-> m, history |-> History(L), config |-> DirectConfig] :
        L \in 0..MaxHistory, m \in {FreshMessage} }
    \cup { [lastMessage |-> Turn(L), history |-> History(L), config |-> DirectConfig] :
        L \in {l \in 1..MaxHistory : l % 2 = 1} }
    \cup { [lastMessage |-> Turn(1), history |-> History(1), config |-> SearchConfig] }

InitRetry ==
    /\ env \in {[n \in EnvNames |-> IF n = "API_KEY" THEN EmptyString ELSE v] :
                    v \in {EmptyString, DistinctKeysEnv(1), DistinctKeysEnv(2)}}
    /\ InitServices
    /\ \E svc \in Services : calls = [c \in {svc} |-> IdleCall]
    /\ chatArea = IdleChatArea

\* A caller starts service.streamMessage(lastMessage, history, config) and reads it.
\* The call is named after the service it runs on.
Request(svc, req) ==
    /\ svc \in DOMAIN calls
    /\ Quiet
    /\ requests < MaxRequests
    /\ requests' = requests + 1
    /\ delivered' = <<>>
    /\ LET r == streamMessage(World, svc, req)
       IN  Become([world |-> r.world, calls |-> [calls EXCEPT ![svc] = r.call], fb |-> fb])
    /\ UNCHANGED <<env, now, returned, chatArea>>

NextRetry ==
    \/ \E svc \in Services, req \in DirectRequests : Request(svc, req)
    \/ \E c \in DOMAIN calls : CreateResolves(c)
    \/ \E c \in DOMAIN calls, message \in UpstreamErrors : CreateRejects(c, message)
    \/ \E c \in DOMAIN calls, chunk \in DirectChunks : ChunkArrives(c, chunk)
    \/ \E c \in DOMAIN calls : StreamEnds(c)
    \/ \E c \in DOMAIN calls, message \in UpstreamErrors : StreamThrows(c, message)
    \/ Tick

SpecRetry == InitRetry /\ [][NextRetry]_vars

-----------------------------------------------------------------------------
(* One service called by two callers whose calls overlap: each generator runs   *)
(* from one await to the next, and the steps of the two interleave freely.     *)

Callers == {"first", "second"}

OverlapRequest == [lastMessage |-> Turn(1), history |-> History(1), config |-> DirectConfig]

InitOverlap ==
    /\ env \in {[n \in EnvNames |-> IF n = "API_KEY" THEN EmptyString ELSE v] :
                    v \in {DistinctKeysEnv(1), DistinctKeysEnv(2)}}
    /\ InitServices
    /\ calls = [c \in Callers |-> IdleCall]
    /\ chatArea = IdleChatArea

\* Caller c starts service.streamMessage(...) on the service the other caller
\* uses too, whatever the other call is doing.
StartCall(c, svc, req) ==
    /\ calls[c].pc = "idle"
    /\ \A d \in DOMAIN calls : calls[d].svc \in {"", svc}
    /\ requests' = requests + 1
    /\ LET r == streamMessage(World, svc, req)
       IN  Become([world |-> r.world, calls |-> [calls EXCEPT ![c] = r.call], fb |-> fb])
    /\ UNCHANGED <<env, now, returned, delivered, chatArea>>

NextOverlap ==
    \/ \E c \in Callers, svc \in Services : StartCall(c, svc, OverlapRequest)
    \/ \E c \in DOMAIN calls : CreateResolves(c)
    \/ \E c \in DOMAIN calls, message \in UpstreamErrors : CreateRejects(c, message)
    \/ \E c \in DOMAIN calls, chunk \in DirectChunks : ChunkArrives(c, chunk)
    \/ \E c \in DOMAIN calls : StreamEnds(c)
    \/ \E c \in DOMAIN calls, message \in UpstreamErrors : StreamThrows(c, message)
    \/ Tick

SpecOverlap == InitOverlap /\ [][NextOverlap]_vars

-----------------------------------------------------------------------------
(* The factory, request after request *)

FallbackRequests ==
    { [ lastMessage |-> Turn(1), history |-> History(1),
        config |-> [ provider |-> p,
                     model |-> IF p = GROQ THEN DefaultGroqModel ELSE DefaultGeminiModel,
                     useSearch |-> FALSE ] ] :
        p \in {NoProvider, GEMINI, GROQ} }

\* Module load of the factory and of the services it imports.
FactoryLoaded ==
    /\ env \in {[n \in EnvNames |->
                    CASE n = "GEMINI_API_KEY" -> v1
                      [] n = "GROQ_API_KEY" -> v2
                      [] OTHER -> EmptyString] :
                    v1, v2 \in {EmptyString, DistinctKeysEnv(1)}}
    /\ InitServices
    /\ calls = [c \in providers |-> IdleCall]

InitFallback == FactoryLoaded /\ chatArea = IdleChatArea

\* A caller starts streamMessageWithFallback(lastMessage, history, config) and reads it.
FallbackRequest(req) ==
    /\ Quiet
    /\ requests < MaxFallbackRequests
    /\ requests' = requests + 1
    /\ delivered' = <<>>
    /\ Become(streamMessageWithFallback(World, [c \in DOMAIN calls |-> IdleCall], req, env))
    /\ UNCHANGED <<env, now, returned, chatArea>>

NextFallback ==
    \/ \E req \in FallbackRequests : FallbackRequest(req)
    \/ \E c \in DOMAIN calls : CreateResolves(c)
    \/ \E c \in DOMAIN calls, message \in UpstreamErrors : CreateRejects(c, message)
    \/ \E c \in DOMAIN calls, chunk \in PlainChunks : ChunkArrives(c, chunk)
    \/ \E c \in DOMAIN calls : StreamEnds(c)
    \/ \E c \in DOMAIN calls, message \in UpstreamErrors : StreamThrows(c, message)
    \/ Tick

SpecFallback == InitFallback /\ [][NextFallback]_vars

\* Every open adapter invocation resolves or rejects, and every open upstream
\* stream ends or fails: the upstream APIs answer.
UpstreamSettles ==
    \E c \in DOMAIN calls :
        \/ CreateResolves(c)
        \/ StreamEnds(c)
        \/ \E message \in UpstreamErrors : CreateRejects(c, message) \/ StreamThrows(c, message)

\* The first streamMessageWithFallback call after module load, followed to its
\* outcome under upstream APIs that answer.
FirstFallbackRequest(req) == requests = 0 /\ FallbackRequest(req)

NextFirstCall ==
    \/ \E req \in FallbackRequests : FirstFallbackRequest(req)
    \/ \E c \in DOMAIN calls : CreateResolves(c)
    \/ \E c \in DOMAIN calls, message \in UpstreamErrors : CreateRejects(c, message)
    \/ \E c \in DOMAIN calls, chunk \in PlainChunks : ChunkArrives(c, chunk)
    \/ \E c \in DOMAIN calls : StreamEnds(c)
    \/ \E c \in DOMAIN calls, message \in UpstreamErrors : StreamThrows(c, message)
    \/ Tick

SpecFallbackLive == InitFallback /\ [][NextFirstCall]_vars /\ WF_vars(UpstreamSettles)

-----------------------------------------------------------------------------
(* The factory read by a consumer that may give the stream up.  Neither         *)
(* generator has a finally block or passes an abort signal on, so what happens  *)
(* is what the language does with return() on an async generator: at a yield   *)
(* the generator is resumed with a return completion, which runs no catch      *)
(* block and makes each "for await" close the iterator it reads; while the     *)
(* generator is running (a next() is pending) the request is queued until the  *)
(* generator next yields or ends.                                               *)

\* The generators, suspended at the yield for a chunk of call c, are resumed with
\* a return completion.
returnAtYield(cs, f, c) ==
    [ calls |-> [cs EXCEPT ![c].pc = "closed"],
      fb |-> [f EXCEPT !.pc = "closed", !.returnRequested = FALSE] ]

\* A chunk arrives and is yielded to a consumer that leaves its loop on it
\* ("break" in a for await body): return() reaches the generators at the yield.
ChunkArrivesConsumerBreaks(c, chunk) ==
    /\ calls[c].pc = "streaming"
    /\ fb.pc \in {"primary", "fallback"}
    /\ ~fb.returnRequested
    /\ Len(delivered) < MaxChunks
    /\ yields(calls[c].svc, chunk.text)
    /\ delivered' = Append(delivered,
                        [ text |-> output(calls[c].svc, chunk).text,
                          grounding |-> output(calls[c].svc, chunk).grounding,
                          provider |-> chunkProvider(fb),
                          source |-> calls[c].svc ])
    /\ calls' = returnAtYield(calls, fb, c).calls
    /\ fb' = returnAtYield(calls, fb, c).fb
    /\ UNCHANGED <<env, keyRotation, now, returned, currentKey, gemini, requests, chatArea>>

\* The consumer calls return() on the stream while the generators wait for the
\* next chunk of the provider's open stream: the request is queued.
ConsumerReturns ==
    /\ fb.pc \in {"primary", "fallback"}
    /\ \E c \in DOMAIN calls : calls[c].pc = "streaming"
    /\ ~fb.returnRequested
    /\ fb' = [fb EXCEPT !.returnRequested = TRUE]
    /\ UNCHANGED <<env, keyRotation, now, returned, currentKey, gemini, calls, delivered,
                   requests, chatArea>>

\* A chunk arrives with a return() queued: a chunk the service yields answers the
\* pending next(), and the queued return() is taken at that yield; a chunk the
\* service skips leaves the generators running.
ChunkArrivesReturnQueued(c, chunk) ==
    /\ calls[c].pc = "streaming"
    /\ fb.returnRequested
    /\ Len(delivered) < MaxChunks
    /\ IF yields(calls[c].svc, chunk.text)
       THEN /\ delivered' = Append(delivered,
                                [ text |-> output(calls[c].svc, chunk).text,
                                  grounding |-> output(calls[c].svc, chunk).grounding,
                                  provider |-> chunkProvider(fb),
                                  source |-> calls[c].svc ])
            /\ calls' = returnAtYield(calls, fb, c).calls
            /\ fb' = returnAtYield(calls, fb, c).fb
       ELSE UNCHANGED <<delivered, calls, fb>>
    /\ UNCHANGED <<env, keyRotation, now, returned, currentKey, gemini, requests, chatArea>>

\* A chunk arrives for a consumer that goes on reading.
ChunkArrivesConsumerReads(c, chunk) ==
    /\ ~fb.returnRequested
    /\ ChunkArrives(c, chunk)

NextAbandon ==
    \/ \E req \in FallbackRequests : FallbackRequest(req)
    \/ \E c \in DOMAIN calls : CreateResolves(c)
    \/ \E c \in DOMAIN calls, message \in UpstreamErrors : CreateRejects(c, message)
    \/ \E c \in DOMAIN calls, chunk \in PlainChunks : ChunkArrivesConsumerReads(c, chunk)
    \/ \E c \in DOMAIN calls, chunk \in PlainChunks : ChunkArrivesConsumerBreaks(c, chunk)
    \/ \E c \in DOMAIN calls, chunk \in PlainChunks : ChunkArrivesReturnQueued(c, chunk)
    \/ ConsumerReturns
    \/ \E c \in DOMAIN calls : StreamEnds(c)
    \/ \E c \in DOMAIN calls, message \in UpstreamErrors : StreamThrows(c, message)

SpecAbandon == InitFallback /\ [][NextAbandon]_vars

-----------------------------------------------------------------------------
(* ChatArea on top of the factory: the user sends, handleSend reads the stream. *)
(* The clock is held: nothing handleSend does with a chunk depends on the time. *)

ChatInputs == { <<"q">> }

\* ChatArea showing a stored conversation of one exchange (its session selected).
StoredChatArea ==
    LET stored == << Message(<<"user", 0>>, "user", <<"p">>),
                     Message(<<"model", 0>>, "model", <<"x">>) >>
    IN  [ IdleChatArea EXCEPT !.messages = stored,
                              !.activeSessionId = <<"session", 0>>,
                              !.sessionMessages = stored ]

\* modelConfig as the settings leave it
ChatConfigs ==
    { [ provider |-> p,
        model |-> IF p = GROQ THEN DefaultGroqModel ELSE DefaultGeminiModel,
        useSearch |-> TRUE ] : p \in {GEMINI, GROQ} }

\* ChatArea mounted on a new conversation or on a stored one.
InitChat == FactoryLoaded /\ chatArea \in {IdleChatArea, StoredChatArea}

\* handleSend up to its first await on the stream; with no provider available
\* the stream throws at once and handleSend runs on into its catch.  The message
\* followed is the first one sent after the mount.
HandleSend(input, config) ==
    /\ input # <<>>
    /\ ~chatArea.isLoading
    /\ requests = 0
    /\ requests' = requests + 1
    /\ delivered' = <<>>
    /\ LET started == beginSend(chatArea, input, requests + 1)
           userMessage == started.currentHistory[Len(started.currentHistory)]
           r == streamMessageWithFallback(World, [c \in DOMAIN calls |-> IdleCall],
                    [ lastMessage |-> userMessage,
                      history |-> started.currentHistory,
                      config |-> config ], env)
       IN  /\ Become(r)
           /\ chatArea' = afterStream(started, r.fb, requests + 1)
    /\ UNCHANGED <<env, now, returned>>

\* React runs the effect after a render in which currentSession has changed; when
\* it does so relative to the events of the stream is left open.
SessionEffect ==
    /\ chatArea.sessionChanged
    /\ chatArea' = syncWithSession(chatArea)
    /\ UNCHANGED <<env, keyRotation, now, returned, currentKey, gemini, calls, fb, delivered,
                   requests>>

NextChat ==
    \/ \E input \in ChatInputs, config \in ChatConfigs : HandleSend(input, config)
    \/ SessionEffect
    \/ \E c \in DOMAIN calls : CreateResolves(c)
    \/ \E c \in DOMAIN calls, message \in UpstreamErrors : CreateRejects(c, message)
    \/ \E c \in DOMAIN calls, chunk \in PlainChunks \cup GroundedChunks : ChunkArrives(c, chunk)
    \/ \E c \in DOMAIN calls : StreamEnds(c)
    \/ \E c \in DOMAIN calls, message \in UpstreamErrors : StreamThrows(c, message)

SpecChat == InitChat /\ [][NextChat]_vars

-----------------------------------------------------------------------------
(* Claims about the pool *)

Distinct(s) == \A i, j \in 1..Len(s) : s[i] = s[j] => i = j

\* A slot is inside its cooldown window: marked failed less than COOLDOWN_MS ago
\* and not reset since.
InsideCooldown(status) == status.failedAt # Undefined /\ now - status.failedAt < COOLDOWN_MS

AllInsideCooldown(p) == \A i \in DOMAIN p.keyStatuses : InsideCooldown(p.keyStatuses[i])

Clean(p) ==
    \A i \in DOMAIN p.keyStatuses :
        p.keyStatuses[i].failedAt = Undefined /\ p.keyStatuses[i].failureCount = 0

\* C1 (as stated): after markKeyFailed(k), no getNextKey() call returns k until
\* COOLDOWN_MS has elapsed since that failure, whatever the pool size and the
\* state of the other keys.
C1_CooldownIsolation ==
    [][ (returned' # NoKey /\ Distinct(pool.keys)) =>
            ~InsideCooldown(pool.keyStatuses[indexOf(pool, returned')]) ]_vars

\* C1 (amended): in a pool of distinct keys, getNextKey() returns a key that is
\* inside its cooldown window only when every key of the pool is inside its
\* cooldown window at that call; it then returns the key at the cursor and
\* changes nothing (the last-resort return).
C1_CooldownIsolationUnlessAllCooling ==
    [][ (returned' # NoKey /\ Distinct(pool.keys)) =>
            LET i == indexOf(pool, returned')
            IN  InsideCooldown(pool.keyStatuses[i]) =>
                    /\ AllInsideCooldown(pool)
                    /\ i = pool.currentIndex
                    /\ keyRotation' = keyRotation ]_vars

\* C1 witness: a three-key pool in which getNextKey() has just returned the third
\* key while the second is inside its cooldown window.
C1_Witness ==
    /\ pool.keys = DistinctKeysEnv(3)
    /\ returned = Key(3)
    /\ pool.currentIndex = 0
    /\ InsideCooldown(pool.keyStatuses[1])
    /\ ~InsideCooldown(pool.keyStatuses[0])
    /\ ~InsideCooldown(pool.keyStatuses[2])

\* C2: a key whose failureCount has reached MAX_FAILURES is not returned by
\* getNextKey() once its cooldown window has expired, as long as resetKey has not
\* been called on it (its failureCount is still at MAX_FAILURES or above).
C2_PermanentQuarantine ==
    [][ (returned' # NoKey /\ Distinct(pool.keys)) =>
            LET st == pool.keyStatuses[indexOf(pool, returned')]
            IN  ~(/\ st.failureCount >= MAX_FAILURES
                  /\ st.failedAt # Undefined
                  /\ now - st.failedAt >= COOLDOWN_MS) ]_vars

\* n consecutive getNextKey() calls on pool p at time t: the keys they return, in
\* order, and the pool afterwards.
RECURSIVE consecutiveCalls(_, _, _)
consecutiveCalls(p, n, t) ==
    IF n = 0 THEN [pool |-> p, keys |-> <<>>]
    ELSE LET r == getNextKey(p, t)
             rest == consecutiveCalls(r.pool, n - 1, t)
         IN  [pool |-> rest.pool, keys |-> <<r.key>> \o rest.keys]

\* C6: in a pool of N distinct keys with no failure recorded, N consecutive
\* getNextKey() calls return the keys in cyclic index order starting at the
\* cursor, each exactly once, and leave the cursor where it started.
C6_RoundRobin ==
    (Distinct(pool.keys) /\ Clean(pool)) =>
        LET N == Len(pool.keys)
            r == consecutiveCalls(pool, N, now)
        IN  /\ r.keys = [i \in 1..N |-> keyAt(pool, (pool.currentIndex + i - 1) % N)]
            /\ Range(r.keys) = Range(pool.keys)
            /\ r.pool.currentIndex = pool.currentIndex

\* C6 witness: a clean three-key pool whose cursor stands at the second key after
\* getNextKey() returned the first; the next three calls return b, c, a.
C6_Witness ==
    /\ pool.keys = DistinctKeysEnv(3)
    /\ Clean(pool)
    /\ returned = Key(1)
    /\ pool.currentIndex = 1
    /\ consecutiveCalls(pool, 3, now).keys = <<Key(2), Key(3), Key(1)>>

-----------------------------------------------------------------------------
(* Claims about the retry loop of streamMessage *)

\* An error message carries the rate-limit signature.
RateLimitClassified(message) ==
    \E word \in {"429", "quota", "rate limit", "RESOURCE_EXHAUSTED"} : word \in Range(message)

\* C3: when every adapter invocation of a streamMessage call failed with a
\* rate-limit-classified error, the adapter was invoked at most MAX_RETRIES times
\* and the call ended with the error raised after the retry loop.
C3_RetryBoundExhausted ==
    \A c \in DOMAIN calls :
        ( /\ calls[c].pc = "threw"
          /\ Len(calls[c].failures) = calls[c].invocations
          /\ \A i \in 1..Len(calls[c].failures) : RateLimitClassified(calls[c].failures[i]) )
        => /\ calls[c].invocations <= MAX_RETRIES
           /\ calls[c].error = EXHAUSTED_RETRIES

\* C5: no key's failureCount ever exceeds MAX_FAILURES.
C5_FailureCountBounded ==
    \A s \in Services : \A i \in DOMAIN keyRotation[s].keyStatuses :
        keyRotation[s].keyStatuses[i].failureCount <= MAX_FAILURES

\* C7: an attempt that failed with an error that is not rate-limit-classified is
\* the last attempt of its call: the call has ended by throwing that error and the
\* adapter was invoked no more often than up to that attempt (once, when it is
\* the first attempt).
C7_NonRateLimitPropagates ==
    \A c \in DOMAIN calls :
        \A i \in 1..Len(calls[c].failures) :
            ~RateLimitClassified(calls[c].failures[i]) =>
                /\ i = Len(calls[c].failures)
                /\ calls[c].pc = "threw"
                /\ calls[c].error = calls[c].failures[i]
                /\ calls[c].invocations = i

\* C7 witness: a call whose first attempt was rate-limited and whose second
\* attempt failed with a network error.
C7_Witness ==
    \E c \in DOMAIN calls :
        /\ calls[c].failures = << <<"HTTP", "429">>, <<"network", "down">> >>
        /\ calls[c].pc = "threw"
        /\ calls[c].invocations = 2

\* C10: for a history of length L >= 1, what the latest attempt of any adapter
\* submitted is exactly L turns: the first L-1 history entries in order, then
\* lastMessage as the newest (user) turn.
C10_HistoryExclusion ==
    \A c \in DOMAIN calls :
        (calls[c].invocations > 0 /\ Len(calls[c].req.history) >= 1) =>
            LET history == calls[c].req.history
                L == Len(history)
                turns == calls[c].sent.turns
            IN  /\ Len(turns) = L
                /\ \A i \in 1..(L - 1) :
                    /\ turns[i].content = history[i].content
                    /\ (turns[i].role = "user") <=> (history[i].role = "user")
                /\ turns[L].content = calls[c].req.lastMessage.content
                /\ turns[L].role = "user"

\* C10 witness: a retry (second attempt) of a request with a two-entry history
\* and a lastMessage that differs from the history's last entry.
C10_Witness ==
    \E c \in DOMAIN calls :
        /\ calls[c].invocations = 2
        /\ calls[c].pc = "awaitCreate"
        /\ calls[c].req.history = History(2)
        /\ calls[c].req.lastMessage = FreshMessage
        /\ Len(calls[c].sent.turns) = 2

-----------------------------------------------------------------------------
(* Claims about streamMessageWithFallback *)

\* The call ended normally, served by the first fallback after the primary raised.
PrimaryRaisedFallbackCompleted ==
    /\ fb.pc = "returned"
    /\ Len(fb.invoked) = 2
    /\ fb.invoked[1] = fb.primaryProvider
    /\ fb.completed = fb.invoked[2]

\* C4 (as stated): when primary A raised and fallback B completed, every chunk
\* delivered during the call is tagged provider = B.
C4_FallbackTagging ==
    PrimaryRaisedFallbackCompleted =>
        \A i \in 1..Len(delivered) : delivered[i].provider = fb.completed

\* C4 (amended): when primary A raised and fallback B completed, every chunk
\* delivered is tagged with the provider whose stream produced it: the chunks A
\* yielded before it raised are tagged A, and every chunk delivered after them
\* is tagged B.
C4_ChunksTaggedWithTheirProvider ==
    PrimaryRaisedFallbackCompleted =>
        /\ \A i \in 1..Len(delivered) :
            /\ delivered[i].provider = delivered[i].source
            /\ delivered[i].provider \in {fb.invoked[1], fb.invoked[2]}
        /\ \A i, j \in 1..Len(delivered) :
            (i < j /\ delivered[i].provider = fb.completed) =>
                delivered[j].provider = fb.completed

\* C4 witness: Gemini yielded one chunk and raised, Groq yielded one chunk and
\* completed.
C4_Witness ==
    /\ PrimaryRaisedFallbackCompleted
    /\ Len(delivered) = 2
    /\ delivered[1].provider = GEMINI
    /\ delivered[2].provider = GROQ

\* C8: once a provider's stream has completed, streamMessageWithFallback has
\* returned, that provider is the last one invoked for the call and no other
\* provider's stream is open.
C8_StopsAtFirstSuccess ==
    \A c \in DOMAIN calls :
        calls[c].pc = "returned" =>
            /\ fb.pc = "returned"
            /\ fb.completed = c
            /\ fb.invoked[Len(fb.invoked)] = c
            /\ \A d \in DOMAIN calls : ~Active(d)

\* C8 witness: both providers are available, the primary (Gemini) completed after
\* delivering a chunk, and Groq was never invoked.
C8_Witness ==
    /\ fb.pc = "returned"
    /\ fb.availableProviders = <<GEMINI, GROQ>>
    /\ fb.invoked = <<GEMINI>>
    /\ calls[GROQ].pc = "idle"
    /\ Len(delivered) > 0

\* C9: when every available provider has failed the call has ended with the
\* aggregate error; the error the caller receives is never a provider's own; and
\* the call ends normally only when some provider's stream completed.
C9_AggregateFailure ==
    /\ ( /\ fb.pc # "idle"
         /\ \A p \in Range(fb.availableProviders) : calls[p].pc = "threw" )
       => (fb.pc = "threw" /\ fb.error = ALL_PROVIDERS_FAILED)
    /\ fb.pc = "threw" =>
        /\ fb.error = ALL_PROVIDERS_FAILED
        /\ \A p \in Range(fb.availableProviders) : calls[p].pc = "threw"
    /\ fb.pc = "returned" => \E c \in DOMAIN calls : calls[c].pc = "returned"

\* C9 witness: both providers were invoked and both failed.
C9_Witness ==
    /\ fb.pc = "threw"
    /\ fb.invoked = <<GEMINI, GROQ>>
    /\ calls[GEMINI].pc = "threw"
    /\ calls[GROQ].pc = "threw"

\* C11: when no provider is available, streamMessageWithFallback invokes no
\* provider's streamMessage and ends at once with a configuration error, an
\* error other than the aggregate all-providers-failed error.
C11_NoProviderConfigurationError ==
    (fb.pc # "idle" /\ fb.availableProviders = <<>>) =>
        /\ fb.pc = "threw"
        /\ fb.invoked = <<>>
        /\ \A c \in DOMAIN calls : calls[c].invocations = 0
        /\ fb.error # ALL_PROVIDERS_FAILED

Running == fb.pc \in {"primary", "fallback"}

Terminal == fb.pc \in {"returned", "threw"}

\* C12: provided every upstream invocation and stream eventually settles, a
\* streamMessageWithFallback call that is running eventually reaches a terminal
\* outcome (returned or threw); it invokes each available provider at most once
\* and each provider's adapter at most MAX_RETRIES times; and once the outcome
\* is reached the call invokes nothing, yields nothing and keeps its outcome.
C12_Terminates ==
    /\ [](/\ \A c \in DOMAIN calls : calls[c].invocations <= MAX_RETRIES
          /\ Distinct(fb.invoked)
          /\ Range(fb.invoked) \subseteq Range(fb.availableProviders))
    /\ [][ (Terminal /\ requests' = requests) =>
               (fb' = fb /\ calls' = calls /\ delivered' = delivered) ]_vars
    /\ (Running ~> Terminal)

\* C12 witness: the call ended after both providers used all MAX_RETRIES attempts.
C12_Witness ==
    /\ Terminal
    /\ fb.invoked = <<GEMINI, GROQ>>
    /\ calls[GEMINI].invocations = MAX_RETRIES
    /\ calls[GROQ].invocations = MAX_RETRIES

-----------------------------------------------------------------------------
(* More claims about the pool *)

\* Every read of the pool's methods is defined: there is a key, the cursor points
\* at one, and every index has its status entry.
WellFormed(p) ==
    /\ Len(p.keys) >= 1
    /\ p.currentIndex \in 0..(Len(p.keys) - 1)
    /\ DOMAIN p.keyStatuses = 0..(Len(p.keys) - 1)

\* C13: in every state that calls of getNextKey, markKeyFailed (any key, known
\* or not) and resetKey (any index, valid or not) lead to, also from a pool
\* built from an empty value, the key list is non-empty, the cursor is a valid
\* index with a status entry, what getNextKey() returned is an element of keys,
\* and getAvailableKeyCount() is a count of keys.
C13_PoolNeverEmpty ==
    /\ WellFormed(pool)
    /\ returned # NoKey => returned \in Range(pool.keys)
    /\ getAvailableKeyCount(pool, now) \in 0..Len(pool.keys)

\* C13 witness: the pool built from the empty string, whose placeholder key was
\* marked failed and then returned by getNextKey() as the last resort.
C13_Witness ==
    /\ env["GROQ_API_KEY"] = EmptyString
    /\ pool.keys = <<NO_API_KEY_PROVIDED>>
    /\ pool.keyStatuses[0].failureCount > 0
    /\ returned = NO_API_KEY_PROVIDED

\* C14: getAvailableKeyCount() is the number of keys whose failureCount is below
\* MAX_FAILURES and that are not inside their cooldown window; for the pool
\* "a,b" with a marked failed twice and b never, it is 1 while less than
\* COOLDOWN_MS have passed since a's last failure and 2 from then on.
C14_AvailableKeyCount ==
    /\ getAvailableKeyCount(pool, now) =
            Cardinality({i \in DOMAIN pool.keyStatuses :
                /\ pool.keyStatuses[i].failureCount < MAX_FAILURES
                /\ ~InsideCooldown(pool.keyStatuses[i])})
    /\ ( /\ pool.keys = DistinctKeysEnv(2)
         /\ pool.keyStatuses[0].failureCount = 2
         /\ pool.keyStatuses[1].failureCount = 0
         /\ pool.keyStatuses[1].failedAt = Undefined )
       => getAvailableKeyCount(pool, now) =
            IF now - pool.keyStatuses[0].failedAt < COOLDOWN_MS THEN 1 ELSE 2

\* C14 witness: the pool "a,b", a marked failed twice at load time, b never, and
\* COOLDOWN_MS later: both keys count as available.
C14_Witness ==
    /\ pool.keys = DistinctKeysEnv(2)
    /\ pool.keyStatuses[0].failureCount = 2
    /\ pool.keyStatuses[0].failedAt = StartTime
    /\ pool.keyStatuses[1].failureCount = 0
    /\ pool.keyStatuses[1].failedAt = Undefined
    /\ now - pool.keyStatuses[0].failedAt >= COOLDOWN_MS
    /\ getAvailableKeyCount(pool, now) = 2

-----------------------------------------------------------------------------
(* Claims about ChatArea reading a stream *)

\* The grounding of the latest of the first n chunks that carried one, or
\* NoGrounding when none did.
RECURSIVE latestGrounding(_, _)
latestGrounding(chunks, n) ==
    IF n = 0 THEN NoGrounding
    ELSE IF chunks[n].grounding # NoGrounding THEN chunks[n].grounding
    ELSE latestGrounding(chunks, n - 1)

\* C15: while handleSend reads a stream, its current grounding (finalGrounding,
\* and the groundingMetadata shown on the model message) is the grounding of
\* the latest chunk delivered so far that carried one, and is unset while none
\* did; a chunk without grounding leaves it as it was.
C15_GroundingLatestWins ==
    chatArea.pc = "reading" =>
        /\ chatArea.finalGrounding = latestGrounding(delivered, Len(delivered))
        /\ \A i \in 1..Len(chatArea.messages) :
            chatArea.messages[i].id = chatArea.modelMessageId =>
                chatArea.messages[i].groundingMetadata =
                    IF delivered = <<>> THEN NoGrounding
                    ELSE latestGrounding(delivered, Len(delivered))

\* C15 witness: a chunk with grounding G1 was followed by one with grounding G2,
\* and the current grounding is G2.
C15_Witness ==
    /\ chatArea.pc = "reading"
    /\ Len(delivered) = 2
    /\ delivered[1].grounding = "G1"
    /\ delivered[2].grounding = "G2"
    /\ chatArea.finalGrounding = "G2"

-----------------------------------------------------------------------------
(* More claims about streamMessage *)

WithoutSearch(cl) == [cl EXCEPT !.req.config.useSearch = FALSE]

\* Two outcomes of a step that differ at most in the request's useSearch flag.
SameButSearch(r1, r2) ==
    /\ r1.world = r2.world
    /\ WithoutSearch(r1.call) = WithoutSearch(r2.call)

\* C16: a request with useSearch = true on Groq or OpenRouter is handled exactly
\* like the same request with useSearch = false: the same payload is sent, every
\* failure is handled the same way, the call returns when the upstream stream
\* ends, and no chunk it yields carries grounding.
C16_SearchIgnoredWithoutRetrieval ==
    \A c \in DOMAIN calls :
        ( /\ calls[c].svc \in {GROQ, "openrouter"}
          /\ calls[c].req # NoRequest
          /\ calls[c].req.config.useSearch )
        => /\ \A i \in 1..Len(delivered) : delivered[i].grounding = NoGrounding
           /\ \A chunk \in DirectChunks : output(calls[c].svc, chunk).grounding = NoGrounding
           /\ calls[c].sent = attempt(World, WithoutSearch(calls[c])).call.sent
           /\ SameButSearch(streamMessage(World, calls[c].svc, calls[c].req),
                            streamMessage(World, calls[c].svc, WithoutSearch(calls[c]).req))
           /\ \A message \in UpstreamErrors :
                SameButSearch(catch(World, calls[c], message, now),
                              catch(World, WithoutSearch(calls[c]), message, now))

\* C16 witness: a Groq request with useSearch = true whose stream delivered a
\* chunk and ended: the call returned.
C16_Witness ==
    \E c \in DOMAIN calls :
        /\ calls[c].svc = GROQ
        /\ calls[c].req # NoRequest
        /\ calls[c].req.config.useSearch
        /\ calls[c].pc = "returned"
        /\ Len(delivered) = 1

\* C17: the key passed to markKeyFailed after a rate-limited attempt is the key
\* that attempt's request was sent with, also when two streamMessage calls on
\* the same service overlap.
C17_MarksTheKeyItSentWith ==
    \A c \in DOMAIN calls :
        \A i \in 1..Len(calls[c].marks) :
            calls[c].marks[i].marked # NoKey =>
                calls[c].marks[i].marked = calls[c].marks[i].sent

\* C18: when a streamMessage call has ended, markKeyFailed was called for every
\* attempt of it that failed with a rate-limit-classified error, with that
\* attempt's key, the last permitted attempt included.
C18_EveryRateLimitedAttemptMarked ==
    \A c \in DOMAIN calls :
        calls[c].pc \in {"returned", "threw"} =>
            \A i \in 1..Len(calls[c].failures) :
                RateLimitClassified(calls[c].failures[i]) =>
                    calls[c].marks[i].marked = calls[c].marks[i].sent

\* C19: every adapter invocation of a streamMessage call, the first included,
\* was preceded by a getNextKey() call of its own: the call has taken as many
\* keys from the pool as it has made invocations.
C19_KeyAcquiredPerAttempt ==
    \A c \in DOMAIN calls : calls[c].acquired = calls[c].invocations

-----------------------------------------------------------------------------
(* Claims about markKeyFailed followed by getNextKey *)

\* Delays shorter than the cooldown window.
WithinCooldown == {0, COOLDOWN_MS - 1}

\* C20: in a pool of at least two distinct keys, whatever the cursor and the
\* failure state of the keys, getNextKey() called right after markKeyFailed(k),
\* less than COOLDOWN_MS later, does not return k; this includes the last-resort
\* return taken when every key is in cooldown.
C20_NextKeyIsNotTheFailedKey ==
    (Len(pool.keys) >= 2 /\ Distinct(pool.keys)) =>
        \A k \in Range(pool.keys) :
            \A delay \in WithinCooldown :
                getNextKey(markKeyFailed(pool, k, now), now + delay).key # k

\* C20 witness: both keys of "a,b" are in cooldown, a was marked failed last
\* (just now, with the cursor on it), and getNextKey() has then returned b as
\* the last resort.
C20_Witness ==
    /\ pool.keys = DistinctKeysEnv(2)
    /\ AllInsideCooldown(pool)
    /\ pool.keyStatuses[0].failedAt = now
    /\ pool.keyStatuses[1].failedAt < now
    /\ pool.currentIndex = 1
    /\ returned = Key(2)

-----------------------------------------------------------------------------
(* Claims about the status entries of the pool *)

\* C21: in every reachable state of a credential pool, a key has failedAt set
\* if and only if its failureCount is greater than 0.
C21_FailedAtIffFailureCount ==
    [](\A s \in Services : \A i \in DOMAIN keyRotation[s].keyStatuses :
        (keyRotation[s].keyStatuses[i].failedAt # Undefined)
            <=> (keyRotation[s].keyStatuses[i].failureCount > 0))

\* C21 witness: in the pool "a,b", getNextKey() has just returned a, which has
\* neither stamp nor count, while b, marked failed twice after load time,
\* carries both.
C21_Witness ==
    /\ pool.keys = DistinctKeysEnv(2)
    /\ returned = Key(1)
    /\ pool.keyStatuses[0].failedAt = Undefined
    /\ pool.keyStatuses[0].failureCount = 0
    /\ pool.keyStatuses[1].failedAt > StartTime
    /\ pool.keyStatuses[1].failureCount = 2

\* getNextKey() skips a slot: it is inside its cooldown window, or it carries no
\* stamp and its failureCount is at MAX_FAILURES or above.
Skipped(status) ==
    \/ InsideCooldown(status)
    \/ (status.failedAt = Undefined /\ status.failureCount >= MAX_FAILURES)

\* C22: a getNextKey() call skips every candidate exactly when every key is in
\* cooldown or at MAX_FAILURES at the call; it then inspects exactly len(keys)
\* candidates, returns the key at the index where the scan started and leaves
\* currentIndex equal to that index.
C22_LastResort ==
    [][ returned' # NoKey =>
            LET everySkipped == \A i \in DOMAIN pool.keyStatuses : Skipped(pool.keyStatuses[i])
                attempts == getNextKey(pool, now).attempts
            IN  /\ everySkipped <=> attempts = Len(pool.keys)
                /\ attempts <= Len(pool.keys)
                /\ everySkipped =>
                    /\ returned' = keyAt(pool, pool.currentIndex)
                    /\ keyRotation'[PoolService].currentIndex = pool.currentIndex ]_vars

\* C22 witness: all three keys of "a,b,c" are in cooldown, the cursor stands on
\* b, and getNextKey() has just returned b and left the cursor there.
C22_Witness ==
    /\ pool.keys = DistinctKeysEnv(3)
    /\ AllInsideCooldown(pool)
    /\ pool.currentIndex = 1
    /\ returned = Key(2)
    /\ getNextKey(pool, now).attempts = 3

\* The indices of the pool that hold key.
positionsOf(p, key) == {i \in 0..(Len(p.keys) - 1) : p.keys[i + 1] = key}

UnknownKey == <<"z">>

\* C23: at every state the pool reaches, markKeyFailed(c) changes nothing when
\* c is not in the pool; when c is in the pool it increases the failureCount of
\* c's slot (the first index holding c) by 1, sets its failedAt to the current
\* time, leaves every other slot's status and the key list unchanged, and moves
\* currentIndex on by one (mod len(keys)) if and only if currentIndex pointed at
\* that slot.
C23_MarkKeyFailedFrame ==
    [](\A c \in Range(pool.keys) \cup {UnknownKey} :
        LET after == markKeyFailed(pool, c, now)
            held == positionsOf(pool, c)
        IN  IF held = {} THEN after = pool
            ELSE LET slot == CHOOSE i \in held : \A j \in held : i <= j
                 IN  /\ after.keys = pool.keys
                     /\ DOMAIN after.keyStatuses = DOMAIN pool.keyStatuses
                     /\ after.keyStatuses[slot] =
                            [ index |-> pool.keyStatuses[slot].index,
                              failedAt |-> now,
                              failureCount |-> pool.keyStatuses[slot].failureCount + 1 ]
                     /\ \A j \in DOMAIN pool.keyStatuses \ {slot} :
                            after.keyStatuses[j] = pool.keyStatuses[j]
                     /\ after.currentIndex =
                            IF pool.currentIndex = slot
                            THEN (pool.currentIndex + 1) % Len(pool.keys)
                            ELSE pool.currentIndex)

\* C23 witness: in the pool "a,b,c" the cursor stood on c when c was marked
\* failed just now; the cursor has wrapped to a, and a and b are untouched.
C23_Witness ==
    /\ pool.keys = DistinctKeysEnv(3)
    /\ returned = NoKey
    /\ pool.currentIndex = 0
    /\ pool.keyStatuses[2] = [index |-> 2, failedAt |-> now, failureCount |-> 1]
    /\ now > StartTime
    /\ pool.keyStatuses[0].failureCount = 0
    /\ pool.keyStatuses[1].failureCount = 0

-----------------------------------------------------------------------------
(* More claims about streamMessageWithFallback *)

\* The providers a call may invoke, in the order it may invoke them: the primary
\* when it is available, then the other available ones in preference order.
Candidates(f) ==
    (IF f.primaryProvider \in Range(f.availableProviders) THEN <<f.primaryProvider>> ELSE <<>>)
    \o SelectSeq(f.availableProviders, LAMBDA provider : provider # f.primaryProvider)

\* C24: the providers a streamMessageWithFallback call has invoked are an
\* initial part of its candidates (the primary first when it is available, never
\* when it is not, then the remaining available providers in the order Gemini,
\* Groq), each once; a provider after the first is invoked only when the one
\* before it failed, and a failed provider, whatever its error, is followed by
\* the next candidate, or by the end of the call when none is left.
C24_InvocationOrder ==
    [](fb.pc # "idle" =>
        LET candidates == Candidates(fb)
            n == Len(fb.invoked)
        IN  /\ fb.availableProviders \in {<<>>, <<GEMINI>>, <<GROQ>>, <<GEMINI, GROQ>>}
            /\ n <= Len(candidates)
            /\ fb.invoked = SubSeq(candidates, 1, n)
            /\ Distinct(fb.invoked)
            /\ candidates # <<>> => n >= 1
            /\ \A i \in 1..n : calls[fb.invoked[i]].invocations >= 1
            /\ \A c \in DOMAIN calls : c \notin Range(fb.invoked) => calls[c].invocations = 0
            /\ \A i \in 1..(n - 1) : calls[fb.invoked[i]].pc = "threw"
            /\ (n >= 1 /\ calls[fb.invoked[n]].pc = "threw") =>
                    (n = Len(candidates) /\ fb.pc = "threw"))

\* C24 witness: both providers are available and Groq is the primary; Groq used
\* up its MAX_RETRIES attempts on rate-limit errors, then Gemini was invoked and
\* failed with a network error, and the call ended.
C24_Witness ==
    /\ fb.primaryProvider = GROQ
    /\ fb.invoked = <<GROQ, GEMINI>>
    /\ calls[GROQ].invocations = MAX_RETRIES
    /\ \A i \in 1..Len(calls[GROQ].failures) : RateLimitClassified(calls[GROQ].failures[i])
    /\ calls[GEMINI].pc = "threw"
    /\ calls[GEMINI].error = <<"network", "down">>
    /\ fb.pc = "threw"

\* C25: of the providers a call has invoked, the primary received the caller's
\* lastMessage, history and config unchanged, and every other one received the
\* same lastMessage and history and a config whose model is that provider's
\* default model and whose other fields are the caller's; the caller's config
\* is, after any number of fallbacks, still the config the caller passed.
C25_FallbackConfig ==
    [](fb.pc # "idle" =>
        /\ fb.req \in FallbackRequests
        /\ \A i \in 1..Len(fb.invoked) :
            LET provider == fb.invoked[i]
                received == calls[provider].req
            IN  /\ received.lastMessage = fb.req.lastMessage
                /\ received.history = fb.req.history
                /\ IF provider = fb.primaryProvider
                   THEN received.config = fb.req.config
                   ELSE /\ received.config.model =
                                (IF provider = GROQ THEN "llama-3.3-70b-versatile"
                                                    ELSE "gemini-2.5-flash")
                        /\ [received.config EXCEPT !.model = fb.req.config.model] = fb.req.config)

\* C25 witness: the caller asked for Gemini with Gemini's model; Gemini failed and
\* Groq, the fallback, was invoked with Groq's default model and the caller's
\* other fields, while the caller's config still names Gemini's model.
C25_Witness ==
    /\ fb.pc = "fallback"
    /\ fb.invoked = <<GEMINI, GROQ>>
    /\ fb.req.config.provider = GEMINI
    /\ fb.req.config.model = DefaultGeminiModel
    /\ calls[GROQ].req.config.model = DefaultGroqModel
    /\ calls[GROQ].req.config.provider = GEMINI
    /\ calls[GROQ].sent.model = DefaultGroqModel

-----------------------------------------------------------------------------
(* Claims about provider availability *)

\* C26: every adapter that owns a credential pool is reported available
\* (isProviderAvailable, and so listed by getAvailableProviders) exactly when
\* its pool holds a real key rather than the placeholder NO_API_KEY_PROVIDED.
C26_AvailableIffRealKey ==
    \A s \in Services :
        isProviderAvailable(env, s) <=> keyRotation[s].keys # <<NO_API_KEY_PROVIDED>>

-----------------------------------------------------------------------------
(* Claims about the Gemini chat session *)

\* C27: while an attempt of the Gemini adapter is under way, first attempt or
\* retry, the chat session is the one built for this request: its model and
\* search flag are the request's, its transcript is the request's history
\* without the last entry, and what was sent is that transcript followed by
\* lastMessage, under the request's model.
C27_SessionRebuiltPerAttempt ==
    \A c \in DOMAIN calls :
        (calls[c].svc = GEMINI /\ Active(c)) =>
            LET req == calls[c].req
                kept == IF Len(req.history) = 0 THEN 0 ELSE Len(req.history) - 1
            IN  /\ gemini.chat # <<>>
                /\ gemini.currentModel = req.config.model
                /\ gemini.currentSearchEnabled = req.config.useSearch
                /\ gemini.chat[1].model = req.config.model
                /\ gemini.chat[1].search = req.config.useSearch
                /\ Len(gemini.chat[1].history) = kept
                /\ \A i \in 1..kept :
                    /\ gemini.chat[1].history[i].role = req.history[i].role
                    /\ gemini.chat[1].history[i].content = req.history[i].content
                /\ calls[c].sent.model = req.config.model
                /\ calls[c].sent.turns =
                        gemini.chat[1].history
                        \o <<[role |-> "user", content |-> req.lastMessage.content]>>

\* C27 witness: the second request to Gemini, with a two-entry history, is at
\* its second attempt (a retry after a rate-limit error); the session holds the
\* first history entry and the request's model.
C27_Witness ==
    /\ requests = 2
    /\ GEMINI \in DOMAIN calls
    /\ calls[GEMINI].pc = "awaitCreate"
    /\ calls[GEMINI].invocations = 2
    /\ calls[GEMINI].req.history = History(2)
    /\ Len(gemini.chat[1].history) = 1
    /\ gemini.currentModel = calls[GEMINI].req.config.model

-----------------------------------------------------------------------------
(* Claims about what ChatArea keeps of a stream *)

\* The texts of the chunks, in order; an empty text adds nothing.
RECURSIVE textOf(_)
textOf(chunks) ==
    IF chunks = <<>> THEN <<>>
    ELSE (IF Head(chunks).text = "" THEN <<>> ELSE <<Head(chunks).text>>) \o textOf(Tail(chunks))

\* The request has ended and handleSend has run to its end.
SendEnded == chatArea.pc = "idle" /\ fb.pc \in {"returned", "threw"}

\* C28: when the stream has completed, the session holds the history sent
\* followed by one model message whose content is the concatenation, in order,
\* of the text of every chunk delivered during the call, whichever attempt or
\* provider produced it; while the stream is read and when the call has ended
\* in an error, the session holds the history sent and no model message of
\* this request.
C28_CommittedContent ==
    /\ chatArea.pc = "reading" => chatArea.sessionMessages = chatArea.currentHistory
    /\ (SendEnded /\ fb.pc = "threw") =>
            /\ chatArea.sessionMessages = chatArea.currentHistory
            /\ \A i \in 1..Len(chatArea.sessionMessages) :
                    chatArea.sessionMessages[i].id # chatArea.modelMessageId
    /\ (SendEnded /\ fb.pc = "returned") =>
            LET n == Len(chatArea.sessionMessages)
            IN  /\ n = Len(chatArea.currentHistory) + 1
                /\ SubSeq(chatArea.sessionMessages, 1, n - 1) = chatArea.currentHistory
                /\ chatArea.sessionMessages[n].id = chatArea.modelMessageId
                /\ chatArea.sessionMessages[n].role = "model"
                /\ chatArea.sessionMessages[n].content = textOf(delivered)
                /\ ~chatArea.sessionMessages[n].isError

\* C28 witness: Gemini yielded "x" and failed, Groq yielded "x" and completed;
\* the committed model message holds both texts.
C28_Witness ==
    /\ SendEnded
    /\ fb.pc = "returned"
    /\ fb.invoked = <<GEMINI, GROQ>>
    /\ Len(delivered) = 2
    /\ delivered[1].source = GEMINI
    /\ delivered[2].source = GROQ
    /\ chatArea.sessionMessages[Len(chatArea.sessionMessages)].content = <<"x", "x">>

\* C29: after a request whose stream ended in an error, the text streamed before
\* the error is the content of a message of ChatArea's list, and that message
\* is flagged isError.
C29_PartialTextFlagged ==
    (SendEnded /\ fb.pc = "threw" /\ textOf(delivered) # <<>>) =>
        \E i \in 1..Len(chatArea.messages) :
            /\ chatArea.messages[i].content = textOf(delivered)
            /\ chatArea.messages[i].isError

-----------------------------------------------------------------------------
(* Claims about a consumer that gives the stream up *)

\* The consumer has called return() on the stream of the request under way.
Abandoned(f) == f.returnRequested \/ f.pc = "closed"

\* C30: once the consumer has abandoned the stream of a request, the provider
\* stream is closed when the generators have closed, and for that request no
\* further adapter invocation (retry attempt), markKeyFailed or getNextKey call
\* is made and no further provider is started.
C30_AbandonStopsRequest ==
    [][ /\ fb'.pc = "closed" => \A c \in DOMAIN calls : calls'[c].pc \notin {"awaitCreate", "streaming"}
        /\ Abandoned(fb) /\ requests' = requests =>
              /\ \A c \in DOMAIN calls : /\ calls'[c].invocations = calls[c].invocations
                                         /\ calls'[c].acquired = calls[c].acquired
              /\ keyRotation' = keyRotation
              /\ currentKey' = currentKey
              /\ fb'.invoked = fb.invoked ]_vars

====
